---- MODULE Spec2Model ----
(***************************************************************************)
(* Cart store, checkout engine and order lifecycle manager of the          *)
(* storefront (app/routers/cart.py, app/routers/orders.py), over the       *)
(* tables of app/models.py.                                                *)
(*                                                                         *)
(* Every request handler is a function from the tables it reads and its    *)
(* inputs to a set of outcomes: the response it sends and the tables as    *)
(* its commit leaves them (a handler that raises before its commit leaves  *)
(* the tables as they were).  An action applies one outcome.  In Spec each *)
(* request runs alone; in ConcSpec a checkout is split where its reads end *)
(* and its writes begin, and requests interleave there.                    *)
(***************************************************************************)
EXTENDS Integers, Sequences, FiniteSets, TLC

\* ------------------------------------------------------------------ bounds
MaxQty == 1        \* initial stock and requested quantities range up to it
MaxNeg == 1        \* requested quantities range down to -MaxNeg
MaxOrders == 2     \* orders persisted in one behaviour
MaxCopies == 2     \* cart lines alive at once for one user and product
MaxSteps == 5      \* requests that commit a change in one behaviour
MaxStock == 2      \* initial stock and requested quantities where only carts change

\* ------------------------------------------------------------ the tables
Users == {"u1", "u2"}
Products == {"p1", "p2"}
Sessions == {"s1", "s2"}

\* users.is_admin: u2 is the administrator, u1 an ordinary customer
is_admin(u) == u = "u2"

valid_statuses ==
  {"pending", "confirmed", "processing", "shipped", "delivered", "cancelled", "refunded"}

\* values a client can send as CartItemBase.quantity / CartItemUpdate.quantity: int
QtyInputs == (0 - MaxNeg)..MaxQty

\* values a client sends as CheckoutRequest.shipping_method: str
MethodInputs == {"standard", "express", "pickup"}

\* values generate_order_number returns: "ORD-<date>-<six random characters>",
\* here a number; two calls can return the same
OrderNumbers == 1..MaxOrders

\* money is counted in thousandths of the currency unit: Product.price is a Float
\* that no schema confines to two decimals
InitialPrice == [p \in Products |-> IF p = "p1" THEN 99990 ELSE 10]

\* values the administrator sends as ProductCreate.price and ProductCreate.name
PriceInputs == {125, 100000}
NameInputs == {"renamed"}

\* cart_items.id is a uuid4: the model names a row after its user, its product
\* and a copy number, a name no other row has
LineIds == Users \X Products \X (1..MaxCopies)
OrderIds == 1..MaxOrders

VARIABLES
  products,          \* products table: id -> [exists, is_active, quantity, price, name]
  cart_items,        \* cart_items table: set of [id, user_id, product_id, quantity]
  orders,            \* orders table: sequence of rows, the id is the index; a row is
                     \*   [order_number, user_id, status, the amounts, the timestamps]
  order_items,       \* order_items table: set of [id, order_id, product_id, quantity,
                     \*   product_price, product_name]
  now,               \* the clock that datetime.now() reads in update_order_status
  sessions,          \* the checkouts in flight (ConcSpec): what each has read
  initial_quantity,  \* products.quantity as it was in the initial state
  steps              \* the number of requests that committed a change so far

vars ==
  <<products, cart_items, orders, order_items, now, sessions, initial_quantity, steps>>

\* ---------------------------------------------------------------- helpers
RECURSIVE SumQuantity(_)
SumQuantity(rows) ==
  IF rows = {} THEN 0
  ELSE LET r == CHOOSE x \in rows : TRUE
       IN r.quantity + SumQuantity(rows \ {r})

\* what a handler leaves behind: its response and the four tables after it
Outcome(result, P, C, O, I) ==
  [result |-> result, products |-> P, cart_items |-> C, orders |-> O, order_items |-> I]

\* a handler that raised: the session is closed without a commit
Raise(result) == Outcome(result, products, cart_items, orders, order_items)

\* the tables become what the outcome says
Commit(out) ==
  /\ products' = out.products
  /\ cart_items' = out.cart_items
  /\ orders' = out.orders
  /\ order_items' = out.order_items

NoRow == [exists |-> FALSE, is_active |-> FALSE, quantity |-> 0, price |-> 0, name |-> ""]

\* a request slot with no request in flight
IdleSession ==
  [pc |-> "idle", user |-> "u1", lines |-> {}, view |-> [p \in Products |-> NoRow],
   method |-> "standard", tax |-> 0, order |-> 0, product |-> "p1", quantity |-> 0]

\* Product.id == p, Product.is_active == True: .first() is not None
ActiveProduct(view, p) == view[p].exists /\ view[p].is_active

\* the caller's rows of cart_items
CartOf(u) == {c \in cart_items : c.user_id = u}

\* the rows of one order in order_items
ItemsOf(o) == {i \in order_items : i.order_id = o}

\* ids that a row of cart_items or a request in flight holds
HeldLineIds ==
  {c.id : c \in cart_items} \cup UNION {{c.id : c \in sessions[s].lines} : s \in Sessions}

FreeCopies(u, p) == {k \in 1..MaxCopies : <<u, p, k>> \notin HeldLineIds}

\* generate_uuid for a new cart line
NewLineId(u, p) == <<u, p, CHOOSE k \in FreeCopies(u, p) : \A j \in FreeCopies(u, p) : k <= j>>

\* round(amount, 2) of an amount in thousandths: the hundredth nearest to it;
\* half way between two hundredths the binary expansion of the double decides,
\* and either neighbour can come out
Round2(amount) ==
  LET below == amount \div 10
      rest == amount % 10
  IN IF rest < 5 THEN {10 * below}
     ELSE IF rest > 5 THEN {10 * (below + 1)}
     ELSE {10 * below, 10 * (below + 1)}

\* total_price += product.price * cart_item.quantity over cart lines
RECURSIVE LinesPrice(_)
LinesPrice(lines) ==
  IF lines = {} THEN 0
  ELSE LET c == CHOOSE x \in lines : TRUE
       IN products[c.product_id].price * c.quantity + LinesPrice(lines \ {c})

\* --------------------------------------------------------------- cart store
\* the CartItemResponse of a cart line, with the ProductInCart of its product
CartItemResponse(c) ==
  [id |-> c.id, product_id |-> c.product_id, quantity |-> c.quantity,
   name |-> products[c.product_id].name, price |-> products[c.product_id].price,
   available_quantity |-> products[c.product_id].quantity]

\* a faulty variant of get_cart: the lines of inactive products are listed and
\* counted too
get_cart_inactive(u) ==
  LET listed == {c \in CartOf(u) : products[c.product_id].exists}
  IN {[result |-> "ok",
       items |-> {CartItemResponse(c) : c \in listed},
       total_items |-> SumQuantity(listed),
       total_price |-> t,
       total_unique_items |-> Cardinality(listed)] : t \in Round2(LinesPrice(listed))}

\* GET /cart/: the CartResponse; it reads and writes nothing
get_cart(u) ==
  LET listed == {c \in CartOf(u) :
                   products[c.product_id].exists /\ products[c.product_id].is_active}
  IN {[result |-> "ok",
       items |-> {CartItemResponse(c) : c \in listed},
       total_items |-> SumQuantity(listed),
       total_price |-> t,
       total_unique_items |-> Cardinality(listed)] : t \in Round2(LinesPrice(listed))}

\* a faulty variant of add_to_cart: the sum that a line there is gets is not
\* compared with the stock
add_to_cart_unchecked(u, p, q) ==
  LET existing == {c \in CartOf(u) : c.product_id = p}
  IN IF ~ActiveProduct(products, p) THEN {Raise("NotFound")}
     ELSE IF q > products[p].quantity THEN {Raise("InsufficientStock")}
     ELSE IF existing # {}
       THEN {Outcome("ok", products,
                     (cart_items \ {e}) \cup {[e EXCEPT !.quantity = e.quantity + q]},
                     orders, order_items) : e \in existing}
     ELSE {Outcome("ok", products,
                   cart_items \cup
                     {[id |-> NewLineId(u, p), user_id |-> u, product_id |-> p, quantity |-> q]},
                   orders, order_items)}

\* a faulty variant of add_to_cart: what goes into the cart is taken off the
\* product's quantity
add_to_cart_reserves(u, p, q) ==
  LET existing == {c \in CartOf(u) : c.product_id = p}
      reserved == [products EXCEPT ![p].quantity = @ - q]
  IN IF ~ActiveProduct(products, p) THEN {Raise("NotFound")}
     ELSE IF q > products[p].quantity THEN {Raise("InsufficientStock")}
     ELSE IF existing # {}
       THEN {LET new_quantity == e.quantity + q
             IN IF new_quantity > products[p].quantity
                  THEN Raise("InsufficientStock")
                  ELSE Outcome("ok", reserved,
                               (cart_items \ {e}) \cup {[e EXCEPT !.quantity = new_quantity]},
                               orders, order_items) : e \in existing}
     ELSE {Outcome("ok", reserved,
                   cart_items \cup
                     {[id |-> NewLineId(u, p), user_id |-> u, product_id |-> p, quantity |-> q]},
                   orders, order_items)}

\* POST /cart/
add_to_cart(u, p, q) ==
  LET existing == {c \in CartOf(u) : c.product_id = p}
  IN IF ~ActiveProduct(products, p) THEN {Raise("NotFound")}
     ELSE IF q > products[p].quantity THEN {Raise("InsufficientStock")}
     ELSE IF existing # {}
       THEN {LET new_quantity == e.quantity + q
             IN IF new_quantity > products[p].quantity
                  THEN Raise("InsufficientStock")
                  ELSE Outcome("ok", products,
                               (cart_items \ {e}) \cup {[e EXCEPT !.quantity = new_quantity]},
                               orders, order_items) : e \in existing}
     ELSE {Outcome("ok", products,
                   cart_items \cup
                     {[id |-> NewLineId(u, p), user_id |-> u, product_id |-> p, quantity |-> q]},
                   orders, order_items)}

\* a faulty variant of update_cart_item: the quantity sent is added to the line's
update_cart_item_adds(u, item_id, q) ==
  LET found == {c \in CartOf(u) : c.id = item_id}
  IN IF found = {} THEN {Raise("NotFound")}
     ELSE LET cart_item == CHOOSE c \in found : TRUE
              p == cart_item.product_id
          IN IF ~ActiveProduct(products, p) THEN {Raise("NotFound")}
             ELSE IF q > products[p].quantity THEN {Raise("InsufficientStock")}
             ELSE IF q <= 0
               THEN {Outcome("removed", products, cart_items \ {cart_item}, orders, order_items)}
             ELSE {Outcome("ok", products,
                           (cart_items \ {cart_item})
                             \cup {[cart_item EXCEPT !.quantity = @ + q]},
                           orders, order_items)}

\* PUT /cart/{item_id}
update_cart_item(u, item_id, q) ==
  LET found == {c \in CartOf(u) : c.id = item_id}
  IN IF found = {} THEN {Raise("NotFound")}
     ELSE LET cart_item == CHOOSE c \in found : TRUE
              p == cart_item.product_id
          IN IF ~ActiveProduct(products, p) THEN {Raise("NotFound")}
             ELSE IF q > products[p].quantity THEN {Raise("InsufficientStock")}
             ELSE IF q <= 0
               THEN {Outcome("removed", products, cart_items \ {cart_item}, orders, order_items)}
             ELSE {Outcome("ok", products,
                           (cart_items \ {cart_item}) \cup {[cart_item EXCEPT !.quantity = q]},
                           orders, order_items)}

\* a faulty variant of remove_from_cart: the line is looked up by its id alone
remove_from_cart_any(u, item_id) ==
  LET found == {c \in cart_items : c.id = item_id}
  IN IF found = {} THEN {Raise("NotFound")}
     ELSE {Outcome("ok", products, cart_items \ found, orders, order_items)}

\* DELETE /cart/{item_id}
remove_from_cart(u, item_id) ==
  LET found == {c \in CartOf(u) : c.id = item_id}
  IN IF found = {} THEN {Raise("NotFound")}
     ELSE {Outcome("ok", products, cart_items \ found, orders, order_items)}

\* DELETE /cart/
clear_cart(u) == {Outcome("ok", products, cart_items \ CartOf(u), orders, order_items)}

\* ------------------------------------------------------- pricing calculator
ExpressCost == 15000
StandardCost == 5000
FreeShippingFrom == 100000

\* a faulty variant of calculate_shipping_cost: shipping is free only above the
\* threshold
calculate_shipping_cost_above(shipping_method, subtotal) ==
  IF shipping_method = "express" THEN ExpressCost
  ELSE IF shipping_method = "standard"
    THEN IF subtotal <= FreeShippingFrom THEN StandardCost ELSE 0
  ELSE 0

calculate_shipping_cost(shipping_method, subtotal) ==
  IF shipping_method = "express" THEN ExpressCost
  ELSE IF shipping_method = "standard"
    THEN IF subtotal < FreeShippingFrom THEN StandardCost ELSE 0
  ELSE 0

\* a faulty variant of calculate_tax: the tenth is cut to whole hundredths
calculate_tax_truncated(subtotal) == {10 * (subtotal \div 100)}

\* round(subtotal * 0.1, 2): the hundredth nearest to a tenth of the subtotal;
\* where the tenth lies half way between two hundredths, the binary expansion of
\* the double decides, and either neighbour can come out
calculate_tax(subtotal) ==
  LET below == subtotal \div 100
      rest == subtotal % 100
  IN IF rest < 50 THEN {10 * below}
     ELSE IF rest > 50 THEN {10 * (below + 1)}
     ELSE {10 * below, 10 * (below + 1)}

\* subtotal += product.price * cart_item.quantity over the cart lines, at the
\* prices of the products read
RECURSIVE Subtotal(_, _)
Subtotal(lines, view) ==
  IF lines = {} THEN 0
  ELSE LET c == CHOOSE x \in lines : TRUE
       IN view[c.product_id].price * c.quantity + Subtotal(lines \ {c}, view)

\* ---------------------------------------------------------- checkout engine
\* a faulty variant of LineCheck: a line that asks for all there is is rejected
LineCheckStrict(view, c) ==
  IF ~ActiveProduct(view, c.product_id) THEN "NotFound"
  ELSE IF view[c.product_id].quantity <= c.quantity THEN "InsufficientStock"
  ELSE "ok"

\* the loop body's two rejections for one cart line, against the products read
LineCheck(view, c) ==
  IF ~ActiveProduct(view, c.product_id) THEN "NotFound"
  ELSE IF view[c.product_id].quantity < c.quantity THEN "InsufficientStock"
  ELSE "ok"

\* the responses validation can end with: the first rejected line decides, and
\* the query that lists the cart has no ORDER BY
CheckoutRejections(lines, view) ==
  IF lines = {} THEN {"EmptyCart"}
  ELSE {LineCheck(view, c) : c \in lines} \ {"ok"}

LinesFor(lines, p) == {c \in lines : c.product_id = p}

\* a faulty variant of DecrementedQuantity: one unit goes per line, whatever the
\* line's quantity
DecrementedByOne(view, lines, p) == view[p].quantity - Cardinality(LinesFor(lines, p))

\* product.quantity -= item_data["quantity"], once per line of the product, on the
\* Product object the session loaded during validation
DecrementedQuantity(view, lines, p) == view[p].quantity - SumQuantity(LinesFor(lines, p))

\* the OrderDB row: total = subtotal + shipping_cost + tax_amount
NewOrder(u, order_number, subtotal, shipping_method, tax_amount) ==
  [order_number |-> order_number, user_id |-> u, status |-> "pending",
   paid_at |-> 0, shipped_at |-> 0, delivered_at |-> 0,
   subtotal |-> subtotal, shipping_method |-> shipping_method,
   shipping_cost |-> calculate_shipping_cost(shipping_method, subtotal),
   tax_amount |-> tax_amount, discount_amount |-> 0,
   total |-> subtotal + calculate_shipping_cost(shipping_method, subtotal) + tax_amount]

\* one OrderItemDB per entry of order_items_data, with the product's name and
\* price as validation read them; its uuid4 id is named after the order, the
\* product and the copy number of the cart line it was made from
NewOrderItems(o, lines, view) ==
  {[id |-> <<o, c.product_id, c.id[3]>>, order_id |-> o, product_id |-> c.product_id,
    quantity |-> c.quantity, product_price |-> view[c.product_id].price,
    product_name |-> view[c.product_id].name] : c \in lines}

\* orders.order_number is unique: an order has the number already
NumberTaken(order_number) == \E o \in 1..Len(orders) : orders[o].order_number = order_number

\* a number no order has, when every order got its number this way
UnusedNumber == Len(orders) + 1

\* a faulty variant of CheckoutWrite: the delete of the cart lines has no
\* user_id filter
CheckoutWriteClearsAllCarts(u, lines, view, shipping_method, tax_amount, order_number) ==
  Outcome("ok",
          [p \in Products |->
             IF DecrementedQuantity(view, lines, p) # view[p].quantity
               THEN [products[p] EXCEPT !.quantity = DecrementedQuantity(view, lines, p)]
               ELSE products[p]],
          {},
          Append(orders,
                 NewOrder(u, order_number, Subtotal(lines, view), shipping_method, tax_amount)),
          order_items \cup NewOrderItems(Len(orders) + 1, lines, view))

\* the writes of a checkout that passed validation of `lines` against `view`:
\* the order, its line items, the stock of the products ordered, the caller's cart
CheckoutWrite(u, lines, view, shipping_method, tax_amount, order_number) ==
  Outcome("ok",
          [p \in Products |->
             IF DecrementedQuantity(view, lines, p) # view[p].quantity
               THEN [products[p] EXCEPT !.quantity = DecrementedQuantity(view, lines, p)]
               ELSE products[p]],
          cart_items \ CartOf(u),
          Append(orders,
                 NewOrder(u, order_number, Subtotal(lines, view), shipping_method, tax_amount)),
          order_items \cup NewOrderItems(Len(orders) + 1, lines, view))

\* a faulty variant of create_order_from_cart: the stock of a line is taken as
\* soon as the line passes validation, and a later line's rejection commits it
create_order_from_cart_eager(u, shipping_method, order_number) ==
  IF CheckoutRejections(CartOf(u), products) # {}
    THEN {Outcome(r,
                  [p \in Products |->
                     [products[p] EXCEPT
                        !.quantity =
                          @ - SumQuantity({c \in LinesFor(CartOf(u), p) :
                                             LineCheck(products, c) = "ok"})]],
                  cart_items, orders, order_items) :
            r \in CheckoutRejections(CartOf(u), products)}
  ELSE IF NumberTaken(order_number) THEN {Raise("IntegrityError")}
  ELSE {CheckoutWrite(u, CartOf(u), products, shipping_method, t, order_number) :
          t \in calculate_tax(Subtotal(CartOf(u), products))}

\* a faulty variant of create_order_from_cart: the orders table takes a number
\* that an order already has
create_order_from_cart_dup(u, shipping_method, order_number) ==
  IF CheckoutRejections(CartOf(u), products) # {}
    THEN {Raise(r) : r \in CheckoutRejections(CartOf(u), products)}
    ELSE {CheckoutWrite(u, CartOf(u), products, shipping_method, t, order_number) :
            t \in calculate_tax(Subtotal(CartOf(u), products))}

\* POST /orders/checkout, where generate_order_number returns order_number: the
\* flush of the new order fails when the orders table has that number, before
\* any line item, stock or cart write is made
create_order_from_cart(u, shipping_method, order_number) ==
  IF CheckoutRejections(CartOf(u), products) # {}
    THEN {Raise(r) : r \in CheckoutRejections(CartOf(u), products)}
  ELSE IF NumberTaken(order_number) THEN {Raise("IntegrityError")}
  ELSE {CheckoutWrite(u, CartOf(u), products, shipping_method, t, order_number) :
          t \in calculate_tax(Subtotal(CartOf(u), products))}

\* ---------------------------------------------------- order lifecycle manager
\* a faulty variant of RestockedQuantity: nothing goes back on the shelf
RestockedNothing(p, items) == products[p].quantity

\* a faulty variant of RestockedQuantity: every line item goes back as one unit,
\* whatever its quantity
RestockedPerLine(p, items) ==
  products[p].quantity + Cardinality({i \in items : i.product_id = p})

\* product.quantity += item.quantity for every line item of the order
RestockedQuantity(p, items) ==
  products[p].quantity + SumQuantity({i \in items : i.product_id = p})

\* a faulty variant of cancel_order: an administrator passes the owner check
cancel_order_admin(u, o) ==
  IF o > Len(orders) THEN {Raise("NotFound")}
  ELSE IF orders[o].user_id # u /\ ~is_admin(u) THEN {Raise("Forbidden")}
  ELSE IF orders[o].status \notin {"pending", "confirmed"} THEN {Raise("InvalidTransition")}
  ELSE {Outcome("ok",
                [p \in Products |->
                   IF products[p].exists
                     THEN [products[p] EXCEPT !.quantity = RestockedQuantity(p, ItemsOf(o))]
                     ELSE products[p]],
                cart_items,
                [orders EXCEPT ![o].status = "cancelled"],
                order_items)}

\* a faulty variant of cancel_order: a line item whose product is gone is an error
cancel_order_strict(u, o) ==
  IF o > Len(orders) THEN {Raise("NotFound")}
  ELSE IF orders[o].user_id # u THEN {Raise("Forbidden")}
  ELSE IF orders[o].status \notin {"pending", "confirmed"} THEN {Raise("InvalidTransition")}
  ELSE IF \E i \in ItemsOf(o) : ~products[i.product_id].exists THEN {Raise("NotFound")}
  ELSE {Outcome("ok",
                [p \in Products |->
                   [products[p] EXCEPT !.quantity = RestockedQuantity(p, ItemsOf(o))]],
                cart_items,
                [orders EXCEPT ![o].status = "cancelled"],
                order_items)}

\* POST /orders/{order_id}/cancel
cancel_order(u, o) ==
  IF o > Len(orders) THEN {Raise("NotFound")}
  ELSE IF orders[o].user_id # u THEN {Raise("Forbidden")}
  ELSE IF orders[o].status \notin {"pending", "confirmed"} THEN {Raise("InvalidTransition")}
  ELSE {Outcome("ok",
                [p \in Products |->
                   IF products[p].exists
                     THEN [products[p] EXCEPT !.quantity = RestockedQuantity(p, ItemsOf(o))]
                     ELSE products[p]],
                cart_items,
                [orders EXCEPT ![o].status = "cancelled"],
                order_items)}

\* a faulty variant of StatusUpdated: the timestamp is written every time the
\* status is set to shipped or delivered
StatusUpdatedStamps(row, s, t) ==
  [row EXCEPT !.status = s,
              !.shipped_at = IF s = "shipped" THEN t ELSE @,
              !.delivered_at = IF s = "delivered" THEN t ELSE @]

\* a faulty variant of StatusUpdated: a delivery also stamps a shipping that was
\* never recorded
StatusUpdatedBoth(row, s, t) ==
  [row EXCEPT !.status = s,
              !.shipped_at = IF s \in {"shipped", "delivered"} /\ row.shipped_at = 0 THEN t ELSE @,
              !.delivered_at = IF s = "delivered" /\ row.delivered_at = 0 THEN t ELSE @]

\* the order row after update_order_status accepted the status s at time t
StatusUpdated(row, s, t) ==
  [row EXCEPT !.status = s,
              !.shipped_at = IF s = "shipped" /\ row.shipped_at = 0 THEN t ELSE @,
              !.delivered_at = IF s = "delivered" /\ row.delivered_at = 0 THEN t ELSE @]

\* a faulty variant of update_order_status: the administrator who sets the status
\* is written as the order's user
update_order_status_takes(u, o, s) ==
  IF ~is_admin(u) THEN {Raise("Forbidden")}
  ELSE IF o > Len(orders) THEN {Raise("NotFound")}
  ELSE IF s = "" THEN {Raise("ok")}
  ELSE IF s \notin valid_statuses THEN {Raise("InvalidStatus")}
  ELSE {Outcome("ok", products, cart_items,
                [orders EXCEPT ![o] = [StatusUpdated(orders[o], s, now) EXCEPT !.user_id = u]],
                order_items)}

\* a faulty variant of update_order_status: an order that is cancelled, refunded
\* or delivered keeps its status
update_order_status_forward(u, o, s) ==
  IF ~is_admin(u) THEN {Raise("Forbidden")}
  ELSE IF o > Len(orders) THEN {Raise("NotFound")}
  ELSE IF s = "" THEN {Raise("ok")}
  ELSE IF s \notin valid_statuses THEN {Raise("InvalidStatus")}
  ELSE IF orders[o].status \in {"cancelled", "refunded", "delivered"}
    THEN {Raise("InvalidTransition")}
  ELSE {Outcome("ok", products, cart_items,
                [orders EXCEPT ![o] = StatusUpdated(orders[o], s, now)], order_items)}

\* a faulty variant of update_order_status: the owner of the order passes the
\* administrator check
update_order_status_owner(u, o, s) ==
  IF o > Len(orders) THEN {Raise(IF is_admin(u) THEN "NotFound" ELSE "Forbidden")}
  ELSE IF ~is_admin(u) /\ orders[o].user_id # u THEN {Raise("Forbidden")}
  ELSE IF s = "" THEN {Raise("ok")}
  ELSE IF s \notin valid_statuses THEN {Raise("InvalidStatus")}
  ELSE {Outcome("ok", products, cart_items,
                [orders EXCEPT ![o] = StatusUpdated(orders[o], s, now)], order_items)}

\* a faulty variant of update_order_status: an order that becomes cancelled or
\* refunded gives its quantities back to the stock
update_order_status_restocks(u, o, s) ==
  IF ~is_admin(u) THEN {Raise("Forbidden")}
  ELSE IF o > Len(orders) THEN {Raise("NotFound")}
  ELSE IF s = "" THEN {Raise("ok")}
  ELSE IF s \notin valid_statuses THEN {Raise("InvalidStatus")}
  ELSE {Outcome("ok",
                IF s \in {"cancelled", "refunded"}
                     /\ orders[o].status \notin {"cancelled", "refunded"}
                  THEN [p \in Products |->
                          [products[p] EXCEPT !.quantity = RestockedQuantity(p, ItemsOf(o))]]
                  ELSE products,
                cart_items,
                [orders EXCEPT ![o] = StatusUpdated(orders[o], s, now)], order_items)}

\* PATCH /orders/{order_id}/status
update_order_status(u, o, s) ==
  IF ~is_admin(u) THEN {Raise("Forbidden")}
  ELSE IF o > Len(orders) THEN {Raise("NotFound")}
  ELSE IF s = "" THEN {Raise("ok")}
  ELSE IF s \notin valid_statuses THEN {Raise("InvalidStatus")}
  ELSE {Outcome("ok", products, cart_items,
                [orders EXCEPT ![o] = StatusUpdated(orders[o], s, now)], order_items)}

\* DELETE /products/{product_id}: the row goes; where cart lines or line items
\* still name the product, the flush either fails on their NOT NULL product_id
\* or leaves them naming a product that no longer exists
delete_product(u, p) ==
  IF ~is_admin(u) THEN {Raise("Forbidden")}
  ELSE IF ~products[p].exists THEN {Raise("NotFound")}
  ELSE {Outcome("ok", [products EXCEPT ![p] = NoRow], cart_items, orders, order_items)}
       \cup IF \E r \in cart_items \cup order_items : r.product_id = p
              THEN {Raise("IntegrityError")}
              ELSE {}

\* a faulty variant of update_product: the new name and price are written through
\* to the line items that name the product
update_product_through(u, p, name, price, quantity) ==
  IF ~is_admin(u) THEN {Raise("Forbidden")}
  ELSE IF ~products[p].exists THEN {Raise("NotFound")}
  ELSE {Outcome("ok",
                [products EXCEPT ![p].name = name, ![p].price = price,
                                 ![p].quantity = quantity],
                cart_items, orders,
                {IF i.product_id = p
                   THEN [i EXCEPT !.product_name = name, !.product_price = price]
                   ELSE i : i \in order_items})}

\* PUT /products/{product_id}, with a category that exists and a sku no other
\* product has: the row takes the name, the price and the quantity sent
update_product(u, p, name, price, quantity) ==
  IF ~is_admin(u) THEN {Raise("Forbidden")}
  ELSE IF ~products[p].exists THEN {Raise("NotFound")}
  ELSE {Outcome("ok",
                [products EXCEPT ![p].name = name, ![p].price = price,
                                 ![p].quantity = quantity],
                cart_items, orders, order_items)}

\* ------------------------------------------------------------ specification
\* values the administrator sends as OrderUpdate.status: Optional[str]
StatusInputs == {"pending", "confirmed", "shipped", "cancelled", "", "bogus"}

\* ids a client sends as item_id: those of the rows there are, and one of no row
LineInputs == {c.id : c \in cart_items} \cup {<<"u1", "p1", MaxCopies>>}

\* the cart line quantities stay within the range the requests draw from
LinesBounded(out) ==
  \A c \in out.cart_items : c.quantity >= 0 - MaxNeg /\ c.quantity <= MaxQty

\* a request that commits a change to a table counts as a step
Count(changed) ==
  /\ steps' = IF changed THEN steps + 1 ELSE steps
  /\ steps' <= MaxSteps

Changed(out) == out # Raise(out.result)

InitFrom(quantities) ==
  /\ \E stock \in [Products -> quantities] :
       products = [p \in Products |->
                     [exists |-> TRUE, is_active |-> TRUE, quantity |-> stock[p],
                      price |-> InitialPrice[p], name |-> p]]
  /\ cart_items = {}
  /\ orders = <<>>
  /\ order_items = {}
  /\ now = 1
  /\ sessions = [s \in Sessions |-> IdleSession]
  /\ initial_quantity = [p \in Products |-> products[p].quantity]
  /\ steps = 0

Init == InitFrom(0..MaxQty)

AddToCartFrom(quantities) ==
  \E u \in Users, p \in Products, q \in quantities :
    /\ FreeCopies(u, p) # {}
    /\ \E out \in add_to_cart(u, p, q) : LinesBounded(out) /\ Commit(out) /\ Count(Changed(out))
    /\ UNCHANGED <<now, sessions, initial_quantity>>

AddToCart == AddToCartFrom(QtyInputs)

UpdateCartItem ==
  \E u \in Users, l \in LineInputs, q \in QtyInputs :
    /\ \E out \in update_cart_item(u, l, q) : Commit(out) /\ Count(Changed(out))
    /\ UNCHANGED <<now, sessions, initial_quantity>>

RemoveFromCart ==
  \E u \in Users, l \in LineInputs :
    /\ \E out \in remove_from_cart(u, l) : Commit(out) /\ Count(Changed(out))
    /\ UNCHANGED <<now, sessions, initial_quantity>>

ClearCart ==
  \E u \in Users :
    /\ \E out \in clear_cart(u) : Commit(out) /\ Count(Changed(out))
    /\ UNCHANGED <<now, sessions, initial_quantity>>

\* a checkout whose order number is drawn from `numbers`
CheckoutDrawing(methods, numbers) ==
  \E u \in Users, m \in methods, n \in numbers :
    /\ \E out \in create_order_from_cart(u, m, n) :
         Len(out.orders) <= MaxOrders /\ Commit(out) /\ Count(Changed(out))
    /\ UNCHANGED <<now, sessions, initial_quantity>>

\* a checkout that draws a number no order has
CheckoutWith(methods) == CheckoutDrawing(methods, {UnusedNumber})

Checkout == CheckoutWith({"standard"})

CancelOrder ==
  \E u \in Users, o \in OrderIds :
    /\ \E out \in cancel_order(u, o) : Commit(out) /\ Count(Changed(out))
    /\ UNCHANGED <<now, sessions, initial_quantity>>

\* an accepted status writes updated_at, and the clock moves on
UpdateOrderStatusFrom(statuses) ==
  \E u \in Users, o \in OrderIds, s \in statuses :
    /\ \E out \in update_order_status(u, o, s) :
         /\ Commit(out)
         /\ Count(out.result = "ok" /\ s # "")
         /\ now' = IF out.result = "ok" /\ s # "" THEN now + 1 ELSE now
    /\ UNCHANGED <<sessions, initial_quantity>>

UpdateOrderStatus == UpdateOrderStatusFrom(StatusInputs)

DeleteProduct ==
  \E u \in Users, p \in Products :
    /\ \E out \in delete_product(u, p) : Commit(out) /\ Count(Changed(out))
    /\ UNCHANGED <<now, sessions, initial_quantity>>

UpdateProduct ==
  \E u \in Users, p \in Products :
    \E name \in NameInputs \cup {products[p].name},
       price \in PriceInputs \cup {products[p].price},
       quantity \in 0..MaxQty :
      /\ \E out \in update_product(u, p, name, price, quantity) :
           Commit(out) /\ Count(Changed(out))
      /\ UNCHANGED <<now, sessions, initial_quantity>>

\* products.is_active is written by no handler: a row becomes inactive from
\* outside, by whoever administers the catalog in the database
DeactivateProduct ==
  \E p \in Products :
    /\ ActiveProduct(products, p)
    /\ products' = [products EXCEPT ![p].is_active = FALSE]
    /\ Count(TRUE)
    /\ UNCHANGED <<cart_items, orders, order_items, now, sessions, initial_quantity>>

Next ==
  \/ AddToCart
  \/ UpdateCartItem
  \/ RemoveFromCart
  \/ ClearCart
  \/ Checkout
  \/ CancelOrder
  \/ UpdateOrderStatus

Spec == Init /\ [][Next]_vars

\* the same requests, and an administrator who deletes products
CatalogNext == Next \/ DeleteProduct

CatalogSpec == Init /\ [][CatalogNext]_vars

\* the cart store alone, over a catalog with more stock: quantities sent range
\* from -MaxNeg to MaxStock, and products are deleted and deactivated
CartQtyInputs == (0 - MaxNeg)..MaxStock

CartInit == InitFrom(0..MaxStock)

CartAddFrom(quantities) ==
  \E u \in Users, p \in Products, q \in quantities :
    /\ FreeCopies(u, p) # {}
    /\ \E out \in add_to_cart(u, p, q) :
         /\ \A c \in out.cart_items : c.quantity >= 0 - MaxNeg
         /\ Commit(out)
         /\ Count(Changed(out))
    /\ UNCHANGED <<now, sessions, initial_quantity>>

CartAdd == CartAddFrom(CartQtyInputs)

CartUpdate ==
  \E u \in Users, l \in LineInputs, q \in CartQtyInputs :
    /\ \E out \in update_cart_item(u, l, q) : Commit(out) /\ Count(Changed(out))
    /\ UNCHANGED <<now, sessions, initial_quantity>>

CartNext ==
  \/ CartAdd
  \/ CartUpdate
  \/ RemoveFromCart
  \/ ClearCart
  \/ DeleteProduct
  \/ DeactivateProduct

CartSpec == CartInit /\ [][CartNext]_vars

\* the cart store over a catalog whose administrator also edits the products:
\* a PUT /products/{product_id} that sends the name and the quantity the row has
\* and another price, so that the prices the carts are shown change under them;
\* the quantities added are 1 or more
UpdateProductPrice ==
  \E u \in Users, p \in Products, price \in PriceInputs :
    /\ \E out \in update_product(u, p, products[p].name, price, products[p].quantity) :
         Commit(out) /\ Count(Changed(out))
    /\ UNCHANGED <<now, sessions, initial_quantity>>

CartViewNext ==
  \/ CartAddFrom(1..MaxStock)
  \/ CartUpdate
  \/ UpdateProductPrice
  \/ DeleteProduct
  \/ DeactivateProduct

CartViewSpec == CartInit /\ [][CartViewNext]_vars

\* customers who add, check out with any shipping method and cancel, and an
\* administrator who edits, deletes and deactivates products and sets statuses
BackOfficeNext ==
  \/ AddToCartFrom(1..MaxQty)
  \/ CheckoutWith(MethodInputs)
  \/ CancelOrder
  \/ UpdateOrderStatus
  \/ UpdateProduct
  \/ DeleteProduct
  \/ DeactivateProduct

BackOfficeSpec == Init /\ [][BackOfficeNext]_vars

\* customers who add quantities of 1 or more, check out and cancel, and an
\* administrator who sends every status there is, and values that are none
LifecycleStatusInputs == valid_statuses \cup {"", "bogus"}

LifecycleNext ==
  \/ AddToCartFrom(1..MaxQty)
  \/ Checkout
  \/ CancelOrder
  \/ UpdateOrderStatusFrom(LifecycleStatusInputs)

LifecycleSpec == Init /\ [][LifecycleNext]_vars

\* customers who add, check out and cancel, with order numbers that can repeat
NumberNext ==
  \/ AddToCartFrom(1..MaxQty)
  \/ CheckoutDrawing({"standard"}, OrderNumbers)
  \/ CancelOrder

NumberSpec == Init /\ [][NumberNext]_vars

\* --------------------------------------------------- interleaved checkouts
\* create_order_from_cart up to the end of its validation loop: the cart lines
\* and the Product objects the session has loaded
CheckoutRead(s, u, m) ==
  /\ sessions[s].pc = "idle"
  /\ CheckoutRejections(CartOf(u), products) = {}
  /\ \E t \in calculate_tax(Subtotal(CartOf(u), products)) :
       sessions' = [sessions EXCEPT
                      ![s] = [IdleSession EXCEPT
                                !.pc = "validated", !.user = u, !.lines = CartOf(u),
                                !.view = products, !.method = m, !.tax = t]]
  /\ UNCHANGED <<products, cart_items, orders, order_items, now, initial_quantity, steps>>

\* create_order_from_cart from db.add(new_order) to db.commit(): the writes, made
\* from what the session loaded before
CheckoutCommit(s) ==
  /\ sessions[s].pc = "validated"
  /\ LET out == CheckoutWrite(sessions[s].user, sessions[s].lines, sessions[s].view,
                               sessions[s].method, sessions[s].tax, UnusedNumber)
     IN Len(out.orders) <= MaxOrders /\ Commit(out) /\ Count(TRUE)
  /\ sessions' = [sessions EXCEPT ![s] = IdleSession]
  /\ UNCHANGED <<now, initial_quantity>>

ConcNext ==
  \/ AddToCartFrom(1..MaxQty)
  \/ \E s \in Sessions, u \in Users : CheckoutRead(s, u, "standard")
  \/ \E s \in Sessions : CheckoutCommit(s)

ConcSpec == Init /\ [][ConcNext]_vars

\* ------------------------------------------------- interleaved cancellations
\* product.quantity += item.quantity on the Product object the session loaded
RestockedFrom(view, p, items) ==
  view[p].quantity + SumQuantity({i \in items : i.product_id = p})

\* the writes of a cancel that passed its checks: the stock of the products its
\* restock loop loaded, as it computed it from what it loaded, and the status
CancelWrite(o, view) ==
  Outcome("ok",
          [p \in Products |->
             IF view[p].exists /\ RestockedFrom(view, p, ItemsOf(o)) # view[p].quantity
               THEN [products[p] EXCEPT !.quantity = RestockedFrom(view, p, ItemsOf(o))]
               ELSE products[p]],
          cart_items,
          [orders EXCEPT ![o].status = "cancelled"],
          order_items)

\* cancel_order up to the end of its checks: the order row is loaded, it is the
\* caller's and it is pending or confirmed
CancelCheck(s, u, o) ==
  /\ sessions[s].pc = "idle"
  /\ o <= Len(orders)
  /\ orders[o].user_id = u
  /\ orders[o].status \in {"pending", "confirmed"}
  /\ sessions' = [sessions EXCEPT
                    ![s] = [IdleSession EXCEPT !.pc = "checked", !.user = u, !.order = o]]
  /\ UNCHANGED <<products, cart_items, orders, order_items, now, initial_quantity, steps>>

\* the queries of the restock loop: the Product objects of the line items
CancelLoad(s) ==
  /\ sessions[s].pc = "checked"
  /\ sessions' = [sessions EXCEPT ![s].pc = "loaded", ![s].view = products]
  /\ UNCHANGED <<products, cart_items, orders, order_items, now, initial_quantity, steps>>

\* cancel_order's db.commit(): the writes, made from what the session loaded
CancelCommit(s) ==
  /\ sessions[s].pc = "loaded"
  /\ Commit(CancelWrite(sessions[s].order, sessions[s].view))
  /\ Count(TRUE)
  /\ sessions' = [sessions EXCEPT ![s] = IdleSession]
  /\ UNCHANGED <<now, initial_quantity>>

\* adds and checkouts that run alone, and cancels that interleave with them and
\* with each other
CancelConcNext ==
  \/ AddToCartFrom(1..MaxQty)
  \/ Checkout
  \/ \E s \in Sessions, u \in Users, o \in OrderIds : CancelCheck(s, u, o)
  \/ \E s \in Sessions : CancelLoad(s)
  \/ \E s \in Sessions : CancelCommit(s)

CancelConcSpec == Init /\ [][CancelConcNext]_vars

\* ----------------------------------------------------------- interleaved adds
\* add_to_cart up to the query for the line there is: the product is active, the
\* quantity is covered, and the session holds the line it found, or none
AddRead(s, u, p, q) ==
  /\ sessions[s].pc = "idle"
  /\ ActiveProduct(products, p)
  /\ q <= products[p].quantity
  /\ \E found \in IF LinesFor(CartOf(u), p) = {} THEN {{}}
                   ELSE {{e} : e \in LinesFor(CartOf(u), p)} :
       /\ \A e \in found : e.quantity + q <= products[p].quantity
       /\ sessions' = [sessions EXCEPT
                         ![s] = [IdleSession EXCEPT
                                   !.pc = "found", !.user = u, !.product = p,
                                   !.quantity = q, !.lines = found]]
  /\ UNCHANGED <<products, cart_items, orders, order_items, now, initial_quantity, steps>>

\* add_to_cart's db.commit(): the line the session found gets the sum as its
\* quantity; a session that found none inserts a line
AddCommit(s) ==
  /\ sessions[s].pc = "found"
  /\ IF sessions[s].lines = {}
       THEN /\ FreeCopies(sessions[s].user, sessions[s].product) # {}
            /\ cart_items' =
                 cart_items \cup
                   {[id |-> NewLineId(sessions[s].user, sessions[s].product),
                     user_id |-> sessions[s].user, product_id |-> sessions[s].product,
                     quantity |-> sessions[s].quantity]}
       ELSE cart_items' =
              {IF \E e \in sessions[s].lines : e.id = c.id
                 THEN [c EXCEPT !.quantity =
                         (CHOOSE e \in sessions[s].lines : e.id = c.id).quantity
                           + sessions[s].quantity]
                 ELSE c : c \in cart_items}
  /\ Count(TRUE)
  /\ sessions' = [sessions EXCEPT ![s] = IdleSession]
  /\ UNCHANGED <<products, orders, order_items, now, initial_quantity>>

AddConcNext ==
  \/ \E s \in Sessions, u \in Users, p \in Products, q \in 1..MaxQty : AddRead(s, u, p, q)
  \/ \E s \in Sessions : AddCommit(s)

AddConcSpec == Init /\ [][AddConcNext]_vars

\* ------------------------------------------------------------------ claims
\* the quantity of product p on the line items of the orders that are not cancelled
OrderedQuantity(p) ==
  SumQuantity({i \in order_items : i.product_id = p /\ orders[i.order_id].status # "cancelled"})

\* the responses a checkout by u can get in the current state
CheckoutResults(u) ==
  {out.result : out \in UNION {create_order_from_cart(u, m, UnusedNumber) : m \in MethodInputs}}

\* the quantity of product p that the cart of u asks for
Requested(u, p) == SumQuantity(LinesFor(CartOf(u), p))

OrdersOf(u) == {o \in 1..Len(orders) : orders[o].user_id = u}

\* C1: in every state reached by cart, checkout, update_status and cancel requests
\* alone, every product's quantity is >= 0.
C1_QuantityNeverNegative == \A p \in Products : products[p].quantity >= 0

\* C2: when checkouts by different users interleave between their validation and
\* their commit, the quantity they order of a product in total is at most the
\* stock there was, and the product's quantity is never negative.
C2_NoOversell ==
  (\A u \in Users : Cardinality(OrdersOf(u)) <= 1) =>
    \A p \in Products :
      /\ OrderedQuantity(p) <= initial_quantity[p]
      /\ products[p].quantity >= 0

\* C3: a checkout that fails gets EmptyCart, NotFound or InsufficientStock and
\* leaves every table as it was: no order, no line item, no change of any
\* product's quantity, no change of the cart.
C3_FailedCheckoutChangesNothing ==
  \A u \in Users, m \in MethodInputs : \A out \in create_order_from_cart(u, m, UnusedNumber) :
    out.result # "ok" =>
      /\ out.result \in {"EmptyCart", "NotFound", "InsufficientStock"}
      /\ out.products = products
      /\ out.cart_items = cart_items
      /\ out.orders = orders
      /\ out.order_items = order_items

\* a cart with a line that passes validation and a line that asks for more than
\* there is: its checkout fails
C3_Witness ==
  \E u \in Users :
    /\ "ok" \notin CheckoutResults(u)
    /\ \E c \in CartOf(u) : LineCheck(products, c) = "ok" /\ c.quantity > 0
    /\ \E c \in CartOf(u) : LineCheck(products, c) = "InsufficientStock"

\* C4: for every product, the initial quantity is the current quantity plus the
\* quantity on the line items of the orders that are not cancelled.
C4_StockConservation ==
  \A p \in Products : initial_quantity[p] = products[p].quantity + OrderedQuantity(p)

\* C5: a successful checkout adds exactly one order, owned by the caller, pending,
\* with null paid_at, shipped_at and delivered_at; it adds exactly one line item
\* per cart line of the caller, with the line's product and quantity; and it
\* takes the ordered quantity off each product's quantity.
C5_CheckoutCreatesOrder ==
  \A u \in Users, m \in MethodInputs : \A out \in create_order_from_cart(u, m, UnusedNumber) :
    out.result = "ok" =>
      LET o == Len(orders) + 1
          items == out.order_items \ order_items
      IN /\ Len(out.orders) = o
         /\ out.orders[o].user_id = u
         /\ out.orders[o].status = "pending"
         /\ out.orders[o].paid_at = 0
         /\ out.orders[o].shipped_at = 0
         /\ out.orders[o].delivered_at = 0
         /\ Cardinality(items) = Cardinality(CartOf(u))
         /\ \A i \in items : i.order_id = o
         /\ \A c \in CartOf(u) :
              Cardinality({i \in items : i.product_id = c.product_id
                                          /\ i.quantity = c.quantity}) = 1
         /\ \A p \in Products :
              out.products[p].quantity = products[p].quantity - Requested(u, p)

\* the state a checkout of a cart of two lines leaves: one pending order with two
\* line items, the stock less by what they order, the owner's cart empty
C5_Witness ==
  /\ Len(orders) = 1
  /\ orders[1].status = "pending"
  /\ Cardinality(ItemsOf(1)) = 2
  /\ \E i \in ItemsOf(1) : i.quantity > 0
  /\ CartOf(orders[1].user_id) = {}
  /\ \A p \in Products : products[p].quantity = initial_quantity[p] - OrderedQuantity(p)

\* C6: after a successful checkout by u, u has no cart lines; the cart lines of
\* the other users, the orders there were and their line items, and the
\* quantities of the products not in u's cart are as before.
C6_CheckoutFrame ==
  \A u \in Users, m \in MethodInputs : \A out \in create_order_from_cart(u, m, UnusedNumber) :
    out.result = "ok" =>
      /\ {c \in out.cart_items : c.user_id = u} = {}
      /\ {c \in out.cart_items : c.user_id # u} = {c \in cart_items : c.user_id # u}
      /\ SubSeq(out.orders, 1, Len(orders)) = orders
      /\ {i \in out.order_items : i.order_id <= Len(orders)} = order_items
      /\ \A p \in Products : LinesFor(CartOf(u), p) = {} => out.products[p] = products[p]

\* a checkout can succeed where there is an order, another user has cart lines
\* and a product with stock is not in the caller's cart
C6_Witness ==
  \E u \in Users :
    /\ CheckoutResults(u) = {"ok"}
    /\ Len(orders) >= 1 /\ Len(orders) < MaxOrders
    /\ \E c \in cart_items : c.user_id # u
    /\ \E p \in Products : LinesFor(CartOf(u), p) = {} /\ products[p].quantity > 0
    /\ \E c \in CartOf(u) : c.quantity > 0

\* C7: for a user whose cart is not empty and names only active products, checkout
\* succeeds exactly when no product the cart names is asked for in a quantity
\* above its live quantity, and fails with InsufficientStock otherwise; with no
\* cart lines it gets EmptyCart; a line whose product is missing is rejected with
\* NotFound.
C7_CheckoutResult ==
  \A u \in Users :
    /\ CartOf(u) = {} => CheckoutResults(u) = {"EmptyCart"}
    /\ (CartOf(u) # {} /\ \A c \in CartOf(u) : ActiveProduct(products, c.product_id)) =>
         IF \A p \in Products :
              LinesFor(CartOf(u), p) # {} => Requested(u, p) <= products[p].quantity
           THEN CheckoutResults(u) = {"ok"}
           ELSE CheckoutResults(u) = {"InsufficientStock"}
    /\ \A c \in CartOf(u) :
         ~products[c.product_id].exists =>
           /\ LineCheck(products, c) = "NotFound"
           /\ "NotFound" \in CheckoutResults(u)
           /\ "ok" \notin CheckoutResults(u)

\* one user's cart names only active products and asks for more than there is of
\* one, and another cart has a line whose product is gone
C7_Witness ==
  /\ \E u \in Users :
       /\ CheckoutResults(u) = {"InsufficientStock"}
       /\ \A c \in CartOf(u) : ActiveProduct(products, c.product_id)
  /\ \E c \in cart_items : ~products[c.product_id].exists

\* C8: of two checkouts of the same user that run at once on the same cart, at
\* most one creates an order: a checkout that commits an order converts cart
\* lines that are still in the cart.
C8_NoDoubleCheckout ==
  [][\A s \in Sessions :
       CheckoutCommit(s) =>
         {c.id : c \in sessions[s].lines} \subseteq {c.id : c \in cart_items}]_vars

\* C9: cancel by the owner of a pending or confirmed order adds each line item's
\* quantity to its product's quantity and makes the order cancelled; cancelling
\* a cancelled order fails with InvalidTransition and changes nothing.
C9_CancelRestocks ==
  \A o \in 1..Len(orders) : \A out \in cancel_order(orders[o].user_id, o) :
    /\ orders[o].status \in {"pending", "confirmed"} =>
         /\ out.result = "ok"
         /\ out.orders = [orders EXCEPT ![o].status = "cancelled"]
         /\ \A p \in Products :
              out.products[p] =
                [products[p] EXCEPT
                   !.quantity = @ + SumQuantity({i \in ItemsOf(o) : i.product_id = p})]
         /\ out.cart_items = cart_items /\ out.order_items = order_items
    /\ orders[o].status = "cancelled" => out = Raise("InvalidTransition")

\* an order of two line items that its owner cancelled: the stock is back
C9_Witness ==
  \E o \in 1..Len(orders) :
    /\ orders[o].status = "cancelled"
    /\ Cardinality(ItemsOf(o)) = 2
    /\ \A i \in ItemsOf(o) : i.quantity > 0
    /\ \A p \in Products : products[p].quantity = initial_quantity[p]
    /\ now = 1

\* C10: cancel by a caller who is not the owner fails with Forbidden, also for an
\* administrator; cancel by the owner of an order that is neither pending nor
\* confirmed fails with InvalidTransition; both leave every table as it was.
C10_CancelRejected ==
  \A u \in Users : \A o \in 1..Len(orders) :
    /\ orders[o].user_id # u => cancel_order(u, o) = {Raise("Forbidden")}
    /\ (orders[o].user_id = u /\ orders[o].status \notin {"pending", "confirmed"}) =>
         cancel_order(u, o) = {Raise("InvalidTransition")}

\* a shipped order of the customer, whom the administrator is not
C10_Witness ==
  \E o \in 1..Len(orders) :
    /\ orders[o].status = "shipped"
    /\ \E u \in Users : is_admin(u) /\ orders[o].user_id # u
    /\ cancel_order(orders[o].user_id, o) = {Raise("InvalidTransition")}

\* C11: when cancels interleave with each other and with checkouts (positive
\* quantities, no administrator), every order's quantities are given back exactly
\* once and no checkout's decrement is lost: each product's quantity is its
\* initial quantity less what the orders that are not cancelled hold, no more
\* (nothing restocked twice) and no less (no decrement overwritten).
C11_CancelAtomic ==
  \A p \in Products :
    /\ products[p].quantity <= initial_quantity[p] - OrderedQuantity(p)
    /\ products[p].quantity >= initial_quantity[p] - OrderedQuantity(p)

\* C12: cancel by the owner of a pending or confirmed order with a line item
\* whose product no longer exists succeeds: the products that are gone stay
\* gone, every product that exists, active or not, gets the quantities of its
\* line items back, and the order becomes cancelled.
C12_CancelSkipsMissingProduct ==
  \A o \in 1..Len(orders) :
    (/\ orders[o].status \in {"pending", "confirmed"}
     /\ \E i \in ItemsOf(o) : ~products[i.product_id].exists) =>
      \A out \in cancel_order(orders[o].user_id, o) :
        /\ out.result = "ok"
        /\ out.orders = [orders EXCEPT ![o].status = "cancelled"]
        /\ \A p \in Products :
             IF products[p].exists
               THEN out.products[p] =
                      [products[p] EXCEPT
                         !.quantity = @ + SumQuantity({i \in ItemsOf(o) : i.product_id = p})]
               ELSE out.products[p] = NoRow

\* a pending order with a line item whose product is gone and a line item whose
\* product is inactive
C12_Witness ==
  \E o \in 1..Len(orders) :
    /\ orders[o].status = "pending"
    /\ \E i \in ItemsOf(o) : ~products[i.product_id].exists
    /\ \E i \in ItemsOf(o) :
         /\ products[i.product_id].exists
         /\ ~products[i.product_id].is_active
         /\ i.quantity > 0

\* C13: every order in the orders table has discount_amount = 0 and
\* total = round(subtotal + shipping_cost + tax_amount - discount_amount, 2),
\* in every state, also after update_status and cancel.
C13_OrderTotalIdentity ==
  \A o \in 1..Len(orders) :
    /\ orders[o].discount_amount = 0
    /\ orders[o].total \in
         Round2(orders[o].subtotal + orders[o].shipping_cost + orders[o].tax_amount
                  - orders[o].discount_amount)

\* the shipping cost the specification gives a shipping method and a subtotal
ExpectedShipping(method, subtotal) ==
  CASE method = "express" -> 15000
    [] method = "standard" /\ subtotal < 100000 -> 5000
    [] OTHER -> 0

\* C14: the shipping cost is 15.0 for express whatever the subtotal, 5.0 for
\* standard below a subtotal of 100 and 0.0 from 100 on, and 0.0 for any other
\* method: for every order in the table, and for the subtotals around the
\* threshold (99.99 gives 5.0, 100.00 gives 0.0).
C14_ShippingCost ==
  /\ \A o \in 1..Len(orders) :
       orders[o].shipping_cost =
         ExpectedShipping(orders[o].shipping_method, orders[o].subtotal)
  /\ \A m \in MethodInputs :
       \A subtotal \in {0 - 10, 0, 10, 99990, 99999, 100000, 100010, 200000} :
         calculate_shipping_cost(m, subtotal) = ExpectedShipping(m, subtotal)
  /\ calculate_shipping_cost("standard", 99990) = 5000
  /\ calculate_shipping_cost("standard", 100000) = 0

\* two standard orders on the two sides of the threshold: 99.99 paid 5.0 for
\* shipping, 100.00 paid nothing
C14_Witness ==
  \E o1, o2 \in 1..Len(orders) :
    /\ orders[o1].shipping_method = "standard"
    /\ orders[o1].subtotal = 99990
    /\ orders[o1].shipping_cost = 5000
    /\ orders[o2].shipping_method = "standard"
    /\ orders[o2].subtotal = 100000
    /\ orders[o2].shipping_cost = 0

RECURSIVE SumOver(_, _)
SumOver(f, S) ==
  IF S = {} THEN 0
  ELSE LET x == CHOOSE y \in S : TRUE IN f[x] + SumOver(f, S \ {x})

\* C15: the order a successful checkout creates has as subtotal the sum, over the
\* products, of the product's price at that moment times the quantity the cart
\* asks for, and as tax_amount a whole number of hundredths at most half a
\* hundredth away from a tenth of the subtotal; the prices are the live ones,
\* whatever they were when the lines were added.
C15_SubtotalAndTax ==
  \A u \in Users, m \in MethodInputs : \A out \in create_order_from_cart(u, m, UnusedNumber) :
    out.result = "ok" =>
      LET new == out.orders[Len(orders) + 1]
          off == 10 * new.tax_amount - new.subtotal
      IN /\ new.subtotal =
              SumOver([p \in Products |-> products[p].price * Requested(u, p)], Products)
         /\ new.tax_amount % 10 = 0
         /\ off <= 50 /\ off >= 0 - 50

\* a cart line of a product whose price has been changed, ready for checkout
C15_Witness ==
  \E u \in Users :
    /\ CheckoutResults(u) = {"ok"}
    /\ \E c \in CartOf(u) :
         /\ c.quantity > 0
         /\ products[c.product_id].price # InitialPrice[c.product_id]
    /\ \E c \in CartOf(u) : products[c.product_id].price = InitialPrice[c.product_id]

\* C16: no step changes or removes a line item there is, and the line items a
\* step adds belong to an order that step creates: product edits and deletions,
\* update_status, cancel and further checkouts leave the line items of the
\* orders there are, and every field of them, as they were.
C16_LineItemsImmutable ==
  [][/\ order_items \subseteq order_items'
     /\ \A i \in order_items' \ order_items : i.order_id > Len(orders)]_vars

\* a cancelled order with a line item whose product has since got another name
\* and another price
C16_Witness ==
  \E i \in order_items :
    /\ orders[i.order_id].status = "cancelled"
    /\ products[i.product_id].exists
    /\ products[i.product_id].price # i.product_price
    /\ products[i.product_id].name # i.product_name

\* C17: no step removes an order or changes its owner; a step changes of an
\* order there is at most the status and the lifecycle timestamps (paid_at,
\* shipped_at, delivered_at), and only an update_status or a cancel changes
\* anything of it.
C17_OrdersPersist ==
  [][/\ Len(orders') >= Len(orders)
     /\ \A o \in 1..Len(orders) :
          /\ orders'[o].user_id = orders[o].user_id
          /\ orders'[o] = [orders[o] EXCEPT !.status = orders'[o].status,
                                            !.paid_at = orders'[o].paid_at,
                                            !.shipped_at = orders'[o].shipped_at,
                                            !.delivered_at = orders'[o].delivered_at]
          /\ orders'[o] # orders[o] => UpdateOrderStatus \/ CancelOrder]_vars

\* an order of the customer that the administrator confirmed and its owner then
\* cancelled: the stock is back, the order is still there
C17_Witness ==
  \E o \in 1..Len(orders) :
    /\ orders[o].status = "cancelled"
    /\ ~is_admin(orders[o].user_id)
    /\ now = 2
    /\ \E i \in ItemsOf(o) : i.quantity > 0
    /\ \A i \in ItemsOf(o) : i.quantity > 0
    /\ \A p \in Products : products[p].quantity = initial_quantity[p]

\* C18: in every state, also one that two add requests of one user for one
\* product reach when they run at once, the cart holds at most one line for a
\* user and a product.
C18_OneLinePerUserProduct ==
  \A u \in Users, p \in Products : Cardinality(LinesFor(CartOf(u), p)) <= 1

\* C19: an add for a product that is missing or inactive fails with NotFound; an
\* add whose quantity, or whose quantity plus that of the line there is, exceeds
\* the product's quantity fails with InsufficientStock; both leave every table
\* as it was.  Any other add leaves exactly one line of the caller for the
\* product, with the quantity there was (none on a cart without the product)
\* plus the quantity sent, and nothing else changed: add a, then add b, gives one
\* line of a + b.
C19_AddMerges ==
  \A u \in Users, p \in Products, q \in CartQtyInputs :
    LET had == SumQuantity(LinesFor(CartOf(u), p))
    IN IF ~ActiveProduct(products, p)
         THEN add_to_cart(u, p, q) = {Raise("NotFound")}
       ELSE IF q > products[p].quantity
                 \/ (LinesFor(CartOf(u), p) # {} /\ had + q > products[p].quantity)
         THEN add_to_cart(u, p, q) = {Raise("InsufficientStock")}
       ELSE \A out \in add_to_cart(u, p, q) :
              /\ out.result = "ok"
              /\ \E c \in out.cart_items :
                   /\ c.user_id = u /\ c.product_id = p /\ c.quantity = had + q
                   /\ {d \in out.cart_items : d.user_id = u /\ d.product_id = p} = {c}
                   /\ out.cart_items \ {c} = cart_items \ LinesFor(CartOf(u), p)
              /\ out.products = products
              /\ out.orders = orders /\ out.order_items = order_items

\* the only cart line is one of 2 for a product with a stock of 2, as an add of 1
\* and another add of 1 leave it; one more would exceed the stock, and a product
\* is inactive
C19_Witness ==
  \E u \in Users, p \in Products :
    /\ steps = 3
    /\ CartOf(u) = cart_items
    /\ \E c \in cart_items : LinesFor(CartOf(u), p) = {c} /\ c.quantity = 2
    /\ products[p].quantity = 2
    /\ add_to_cart(u, p, 1) = {Raise("InsufficientStock")}
    /\ \E r \in Products : products[r].exists /\ ~products[r].is_active

\* C20: every cart line has a quantity of at least 1, whatever integers the add
\* and update requests send, 0 and negative ones included.
C20_LineQuantityPositive == \A c \in cart_items : c.quantity >= 1

\* C21: an update with a quantity of 0 or less on a line of the caller deletes
\* that line and nothing else and is answered as a removal, whether the line's
\* product is active, inactive or gone.
C21_UpdateNonPositiveRemoves ==
  \A u \in Users : \A c \in CartOf(u) : \A q \in {x \in CartQtyInputs : x <= 0} :
    update_cart_item(u, c.id, q) =
      {Outcome("removed", products, cart_items \ {c}, orders, order_items)}

\* C22 as first stated: an update with a quantity of 1 or more fails with NotFound
\* when the line is not the caller's and with InsufficientStock when the quantity
\* exceeds the product's, and changes nothing then; any other update gives the
\* line exactly the quantity sent and changes no other line.
C22_UpdateOverwritesAnyProduct ==
  \A u \in Users, l \in LineIds, q \in 1..MaxStock :
    LET found == {c \in CartOf(u) : c.id = l}
    IN IF found = {} THEN update_cart_item(u, l, q) = {Raise("NotFound")}
       ELSE \A c \in found :
              IF q > products[c.product_id].quantity
                THEN update_cart_item(u, l, q) = {Raise("InsufficientStock")}
                ELSE update_cart_item(u, l, q) =
                       {Outcome("ok", products,
                                (cart_items \ {c}) \cup {[c EXCEPT !.quantity = q]},
                                orders, order_items)}

\* C22: an update with a quantity of 1 or more fails with NotFound when the line
\* is not the caller's or its product is missing or inactive, and with
\* InsufficientStock when the product is active and the quantity exceeds the
\* product's; every table is then as it was.  Any other update gives the line
\* exactly the quantity sent, whatever it had, and changes no other line.
C22_UpdateOverwrites ==
  \A u \in Users, l \in LineIds, q \in 1..MaxStock :
    LET found == {c \in CartOf(u) : c.id = l}
    IN IF found = {} THEN update_cart_item(u, l, q) = {Raise("NotFound")}
       ELSE \A c \in found :
              IF ~ActiveProduct(products, c.product_id)
                THEN update_cart_item(u, l, q) = {Raise("NotFound")}
              ELSE IF q > products[c.product_id].quantity
                THEN update_cart_item(u, l, q) = {Raise("InsufficientStock")}
              ELSE update_cart_item(u, l, q) =
                     {Outcome("ok", products,
                              (cart_items \ {c}) \cup {[c EXCEPT !.quantity = q]},
                              orders, order_items)}

\* a line of 1 for a product with a stock of 2, which an update to 2 overwrites
\* and an update to more is refused; a line of another user, which the caller
\* cannot update; and a line whose product is no longer active
C22_Witness ==
  \E u \in Users : \E c \in CartOf(u) :
    /\ c.quantity = 1
    /\ products[c.product_id].quantity = 2
    /\ \A out \in update_cart_item(u, c.id, 2) :
         out.result = "ok" /\ [c EXCEPT !.quantity = 2] \in out.cart_items
    /\ \E d \in cart_items : d.user_id # u /\ update_cart_item(u, d.id, 1) = {Raise("NotFound")}
    /\ \E d \in cart_items : ~ActiveProduct(products, d.product_id)

\* C23: remove of a line that is another user's, or of no line, fails with
\* NotFound and deletes nothing; remove of a line of the caller deletes that line
\* only.  Clear succeeds on any cart, the empty one included, deletes all the
\* lines of the caller and no other, and leaves a state in which a second clear
\* finds nothing to delete.
C23_RemoveAndClearScoped ==
  \A u \in Users :
    /\ \A l \in LineIds :
         IF \E c \in cart_items : c.id = l /\ c.user_id = u
           THEN \A out \in remove_from_cart(u, l) :
                  /\ out.result = "ok"
                  /\ out.cart_items = {c \in cart_items : c.id # l}
                  /\ Cardinality(out.cart_items) = Cardinality(cart_items) - 1
                  /\ out.products = products
                  /\ out.orders = orders /\ out.order_items = order_items
           ELSE remove_from_cart(u, l) = {Raise("NotFound")}
    /\ clear_cart(u) # {}
    /\ \A out \in clear_cart(u) :
         /\ out.result = "ok"
         /\ out.cart_items = {c \in cart_items : c.user_id # u}
         /\ {c \in out.cart_items : c.user_id # u} = out.cart_items
         /\ out.products = products
         /\ out.orders = orders /\ out.order_items = order_items
    /\ (\A c \in cart_items : c.user_id # u) => clear_cart(u) = {Raise("ok")}

\* after three requests that changed the cart table, a user has no line and the
\* other has one: a clear of the first changes nothing, and the first cannot
\* remove the line of the other
C23_Witness ==
  \E u \in Users :
    /\ steps = 3
    /\ CartOf(u) = {}
    /\ clear_cart(u) = {Raise("ok")}
    /\ \E c \in cart_items :
         /\ c.user_id # u
         /\ remove_from_cart(u, c.id) = {Raise("NotFound")}
         /\ \A out \in remove_from_cart(c.user_id, c.id) : out.cart_items = {}
    /\ \A p \in Products : ActiveProduct(products, p)

\* the caller's lines whose product is there and active
LiveLines(u) == {c \in CartOf(u) : ActiveProduct(products, c.product_id)}

\* the sum of live price x quantity over the live lines of a cart
LivePrice(u) ==
  SumOver([c \in LiveLines(u) |-> products[c.product_id].price * c.quantity], LiveLines(u))

\* what get answers about the lines, apart from total_price: it succeeds, it lists
\* the live lines and no other, with their quantities and the live prices, and
\* total_items and total_unique_items are the sum of the quantities and the count
\* of the lines listed
GetListsLiveLines(u, r) ==
  /\ r.result = "ok"
  /\ {i.id : i \in r.items} = {c.id : c \in LiveLines(u)}
  /\ Cardinality(r.items) = Cardinality(LiveLines(u))
  /\ \A i \in r.items : \E c \in LiveLines(u) :
       /\ i.id = c.id /\ i.product_id = c.product_id /\ i.quantity = c.quantity
       /\ i.price = products[c.product_id].price
  /\ r.total_items = SumOver([c \in LiveLines(u) |-> c.quantity], LiveLines(u))
  /\ r.total_unique_items = Cardinality(LiveLines(u))

\* C24 as first stated: get never fails; lines whose product is missing or
\* inactive are left out of the list and of the aggregates; and total_price is
\* the sum of live price x quantity over the lines listed.
C24_GetTotalsExact ==
  \A u \in Users :
    /\ get_cart(u) # {}
    /\ \A r \in get_cart(u) : GetListsLiveLines(u, r) /\ r.total_price = LivePrice(u)

\* C24: get never fails; lines whose product is missing or inactive are left out
\* of the list and of the aggregates; total_items is the sum of the quantities of
\* the lines listed, total_unique_items their count, and total_price the sum of
\* live price x quantity over them rounded to 2 decimals: a whole number of
\* hundredths at most half a hundredth away from the sum.
C24_GetSkipsDeadLines ==
  \A u \in Users :
    /\ get_cart(u) # {}
    /\ \A r \in get_cart(u) :
         /\ GetListsLiveLines(u, r)
         /\ r.total_price % 10 = 0
         /\ r.total_price - LivePrice(u) <= 5
         /\ LivePrice(u) - r.total_price <= 5

\* a cart of three lines: one of 2 for a product whose price has changed, one of
\* an inactive product and one of a product that is gone
C24_Witness ==
  \E u \in Users :
    /\ \E c \in LiveLines(u) :
         /\ c.quantity = 2
         /\ products[c.product_id].price # InitialPrice[c.product_id]
    /\ \E c \in CartOf(u) : products[c.product_id].exists /\ ~products[c.product_id].is_active
    /\ \A r \in get_cart(u) : r.total_unique_items = 1 /\ r.total_items = 2

\* C25: an update_status by an administrator with a value that is none of the
\* seven statuses, the empty string included, fails with InvalidStatus and leaves
\* the order as it was; and every order's status is one of the seven.
C25_InvalidStatusRejected ==
  /\ \A u \in Users, o \in 1..Len(orders), s \in LifecycleStatusInputs \ valid_statuses :
       is_admin(u) => update_order_status(u, o, s) = {Raise("InvalidStatus")}
  /\ \A o \in 1..Len(orders) : orders[o].status \in valid_statuses

\* C26: shipped_at is null until a step makes the status shipped, that step sets
\* it to the time of the step, and no step changes it once it is set, also not
\* one that makes the status shipped again; the same for delivered_at and the
\* status delivered.
C26_TimestampsSetOnce ==
  [][\A o \in 1..Len(orders) :
       /\ orders[o].shipped_at # 0 => orders'[o].shipped_at = orders[o].shipped_at
       /\ orders[o].delivered_at # 0 => orders'[o].delivered_at = orders[o].delivered_at
       /\ orders[o].shipped_at = 0 =>
            /\ orders[o].status # "shipped"
            /\ IF orders'[o].status = "shipped"
                 THEN orders'[o].shipped_at = now
                 ELSE orders'[o].shipped_at = 0
       /\ orders[o].delivered_at = 0 =>
            /\ orders[o].status # "delivered"
            /\ IF orders'[o].status = "delivered"
                 THEN orders'[o].delivered_at = now
                 ELSE orders'[o].delivered_at = 0]_vars

\* an order that was shipped at time 1, delivered at time 2 and shipped again at
\* time 3: shipped_at is still 1
C26_Witness ==
  \E o \in 1..Len(orders) :
    /\ orders[o].status = "shipped"
    /\ orders[o].shipped_at = 1
    /\ orders[o].delivered_at = 2
    /\ now = 4

\* C27: from every status an order can have, cancelled, refunded and delivered
\* included, an update_status by an administrator to any of the seven statuses
\* succeeds and makes the status the one sent, and changes nothing else but the
\* timestamp of a first shipping or delivery.
C27_AnyTransition ==
  \A u \in Users, o \in 1..Len(orders), s \in valid_statuses :
    is_admin(u) =>
      /\ update_order_status(u, o, s) # {}
      /\ \A out \in update_order_status(u, o, s) :
           /\ out.result = "ok"
           /\ out.orders[o].status = s
           /\ out.orders = [orders EXCEPT ![o] = [orders[o] EXCEPT
                                                    !.status = s,
                                                    !.shipped_at = out.orders[o].shipped_at,
                                                    !.delivered_at = out.orders[o].delivered_at]]
           /\ out.products = products
           /\ out.cart_items = cart_items /\ out.order_items = order_items

\* an order that was delivered, then refunded, and is pending again
C27_Witness ==
  \E o \in 1..Len(orders) :
    /\ orders[o].status = "pending"
    /\ orders[o].delivered_at = 1
    /\ orders[o].shipped_at = 0
    /\ now = 4

\* C28: an update_status by a caller who is not an administrator, the owner of
\* the order included, fails with Forbidden and leaves every table as it was,
\* whatever order and status it names.
C28_NonAdminForbidden ==
  \A u \in Users, o \in OrderIds, s \in LifecycleStatusInputs :
    ~is_admin(u) => update_order_status(u, o, s) = {Raise("Forbidden")}

\* a pending order of a customer who is no administrator, and an order whose
\* status an administrator has set
C28_Witness ==
  /\ \E o \in 1..Len(orders) :
       /\ ~is_admin(orders[o].user_id)
       /\ orders[o].status = "pending"
       /\ update_order_status(orders[o].user_id, o, "confirmed") = {Raise("Forbidden")}
  /\ \E o \in 1..Len(orders) : orders[o].status = "confirmed"

\* C30: over any sequence of checkouts, cancels and update_status requests, what
\* an order took off the shelf is put back at most once.  Carts ask for 1 or more
\* and only checkouts and cancels write the stock, so as long as no order is
\* restocked twice a product's quantity is at most its initial quantity: each
\* unit a cancel adds is a unit its order's checkout took.
C30_RestockedAtMostOnce ==
  \A p \in Products : products[p].quantity <= initial_quantity[p]

\* C29: no two orders in the table have the same order_number; and a checkout
\* that passes validation and draws a number an order already has ends without
\* success and leaves every table as it was: no second order with that number,
\* no line item, no stock taken, the cart still there.
C29_OrderNumberUnique ==
  /\ \A o1, o2 \in 1..Len(orders) :
       orders[o1].order_number = orders[o2].order_number => o1 = o2
  /\ \A u \in Users, m \in MethodInputs, n \in OrderNumbers :
       (\E o \in 1..Len(orders) : orders[o].order_number = n) =>
         \A out \in create_order_from_cart(u, m, n) :
           /\ out.result # "ok"
           /\ out.orders = orders
           /\ out.order_items = order_items
           /\ out.products = products
           /\ out.cart_items = cart_items

\* an order has a number, and a cart that passes validation is checked out with
\* the same number drawn: the checkout fails though another number would do
C29_Witness ==
  \E u \in Users, o \in 1..Len(orders) :
    /\ CartOf(u) # {}
    /\ \A c \in CartOf(u) : c.quantity > 0
    /\ CheckoutRejections(CartOf(u), products) = {}
    /\ create_order_from_cart(u, "standard", orders[o].order_number) = {Raise("IntegrityError")}
    /\ \E n \in OrderNumbers : \A out \in create_order_from_cart(u, "standard", n) :
         out.result = "ok"

\* C31: a checkout that commits deletes exactly the cart lines it made line
\* items of: a line that an add of the same user committed after the checkout
\* read the cart is not among them, and is still in the cart afterwards.
C31_CheckoutDeletesConverted ==
  [][\A s \in Sessions :
       CheckoutCommit(s) => (cart_items \ cart_items') \subseteq sessions[s].lines]_vars

\* C32: an update_status, whoever sends it and whatever order and status it
\* names, leaves every product, every cart line and every line item as it was:
\* setting an order to cancelled or refunded puts nothing back on the shelf, and
\* moving an order out of cancelled takes nothing off it.
C32_UpdateStatusFrame ==
  \A u \in Users, o \in OrderIds, s \in LifecycleStatusInputs :
    \A out \in update_order_status(u, o, s) :
      /\ out.products = products
      /\ out.cart_items = cart_items
      /\ out.order_items = order_items

\* an order that its owner cancelled, which gave its quantity back, and whose
\* status the administrator then set twice, last to refunded: the stock is as it
\* was after the cancel
C32_Witness ==
  \E o \in 1..Len(orders) :
    /\ orders[o].status = "refunded"
    /\ now = 3
    /\ steps = 5
    /\ \E i \in ItemsOf(o) : i.quantity > 0
    /\ \A p \in Products : products[p].quantity = initial_quantity[p]

\* the outcome leaves the products, the orders and the line items as they are
KeepsStockAndOrders(out) ==
  /\ out.products = products
  /\ out.orders = orders
  /\ out.order_items = order_items

\* C33: add, update, remove and clear change no product and no order, whatever
\* they are sent, and get answers without writing; stock is taken at checkout
\* only.  So a cart line can ask for more than its product has left, and the
\* checkout of its cart then fails, with InsufficientStock for that line, and
\* takes nothing.
C33_CartReservesNothing ==
  \A u \in Users :
    /\ \A p \in Products, q \in QtyInputs :
         FreeCopies(u, p) # {} => \A out \in add_to_cart(u, p, q) : KeepsStockAndOrders(out)
    /\ \A l \in LineIds, q \in QtyInputs :
         \A out \in update_cart_item(u, l, q) : KeepsStockAndOrders(out)
    /\ \A l \in LineIds : \A out \in remove_from_cart(u, l) : KeepsStockAndOrders(out)
    /\ \A out \in clear_cart(u) : KeepsStockAndOrders(out)
    /\ \A r \in get_cart(u) : r.result = "ok"
    /\ \A c \in CartOf(u) :
         c.quantity > products[c.product_id].quantity =>
           /\ LineCheck(products, c) = "InsufficientStock"
           /\ "InsufficientStock" \in CheckoutResults(u)
           /\ "ok" \notin CheckoutResults(u)
           /\ \A m \in MethodInputs : \A out \in create_order_from_cart(u, m, UnusedNumber) :
                KeepsStockAndOrders(out)

\* a user's line of 1 for a product of which there was 1 and there is none now:
\* the other user's order has it
C33_Witness ==
  \E u \in Users : \E c \in CartOf(u) :
    /\ c.quantity = 1
    /\ initial_quantity[c.product_id] = 1
    /\ products[c.product_id].quantity = 0
    /\ \E i \in order_items :
         /\ i.product_id = c.product_id /\ i.quantity = 1
         /\ orders[i.order_id].user_id # u
         /\ orders[i.order_id].status = "pending"
    /\ CheckoutResults(u) = {"InsufficientStock"}

\* the step is an update_order_status of order o to the status s by an administrator
SetByAdmin(o, s) ==
  \E u \in Users :
    /\ is_admin(u)
    /\ \E out \in update_order_status(u, o, s) : out.result = "ok" /\ orders' = out.orders

\* C34: an order is created with shipped_at, delivered_at and paid_at null; a
\* step leaves shipped_at non-null exactly when it was non-null before or the
\* step is an update_order_status to shipped, and delivered_at likewise with
\* delivered; so each is non-null iff an earlier update_order_status set that
\* status.  paid_at stays null through every step: no status of the seven is
\* a payment.  Nothing ties delivered_at to shipped_at.
C34_TimestampsFollowStatusUpdates ==
  [][/\ \A o \in (Len(orders) + 1)..Len(orders') :
          orders'[o].shipped_at = 0 /\ orders'[o].delivered_at = 0 /\ orders'[o].paid_at = 0
     /\ \A o \in 1..Len(orders) :
          /\ orders'[o].shipped_at # 0 <=>
               (orders[o].shipped_at # 0 \/ orders'[o].status = "shipped")
          /\ orders'[o].delivered_at # 0 <=>
               (orders[o].delivered_at # 0 \/ orders'[o].status = "delivered")
          /\ orders'[o].status = "shipped" =>
               (orders[o].status = "shipped" \/ SetByAdmin(o, "shipped"))
          /\ orders'[o].status = "delivered" =>
               (orders[o].status = "delivered" \/ SetByAdmin(o, "delivered"))
          /\ orders'[o].paid_at = 0]_vars

\* an order delivered at time 1 and never shipped, whose status was then set to
\* processing: delivered_at is set, shipped_at and paid_at are null
C34_Witness ==
  \E o \in 1..Len(orders) :
    /\ orders[o].status = "processing"
    /\ orders[o].delivered_at = 1
    /\ orders[o].shipped_at = 0
    /\ orders[o].paid_at = 0

\* C35: in the state a successful checkout leaves, the cancel of the new order
\* by its owner succeeds and gives every product the quantity it had before the
\* checkout; the owner's cart, emptied by the checkout, stays empty; the order
\* and its line items stay in their tables, the order with status cancelled.
C35_CheckoutThenCancel ==
  [][\A u \in Users, o \in OrderIds :
       (Len(orders') = Len(orders) + 1 /\ o = Len(orders') /\ u = orders'[o].user_id) =>
         /\ CartOf(u) # {}
         /\ (cancel_order(u, o) # {})'
         /\ \A out \in (cancel_order(u, o))' :
              /\ out.result = "ok"
              /\ \A p \in Products : out.products[p].quantity = products[p].quantity
              /\ {c \in out.cart_items : c.user_id = u} = {}
              /\ Len(out.orders) = o
              /\ out.orders[o].status = "cancelled"
              /\ out.orders[o].user_id = u
              /\ out.order_items = order_items'
              /\ \E i \in out.order_items : i.order_id = o]_vars

\* the first order, cancelled by its owner in the step after the checkout, one
\* unit ordered: the stock is what it was, the owner's cart is empty
C35_Witness ==
  /\ Len(orders) = 1
  /\ orders[1].status = "cancelled"
  /\ steps = 3
  /\ CartOf(orders[1].user_id) = {}
  /\ Cardinality(ItemsOf(1)) = 1
  /\ \A i \in ItemsOf(1) : i.quantity = 1
  /\ \A p \in Products : products[p].quantity = initial_quantity[p]

====
